---- MODULE Spec2Model ----
(***************************************************************************)
(* Model of main.py: a straight-line script that loads a .env file,        *)
(* configures MLflow tracking, enables Groq auto tracing, builds a Groq    *)
(* client, issues one chat-completion request and prints the first         *)
(* choice's content.  The script has no try/except, so an exception raised *)
(* by any statement ends the run at that statement.  The libraries         *)
(* (dotenv, mlflow, groq) are the environment: what they return, and       *)
(* whether they raise, is chosen nondeterministically.                     *)
(***************************************************************************)
EXTENDS Integers, Sequences, FiniteSets, TLC

\* Largest number of choices in a chat-completion response.
MaxChoices == 2

\* Python's None, for values that are a string or None.
None == "NoneType"

\* Working directories the script may be started in (pathlib.Path.cwd()).
CwdPaths == {"/home/u/app", "/srv/job"}

\* Values GROQ_API_KEY can have in the process environment or the .env file.
ApiKeys == {None, "gsk_A", "gsk_B"}

\* message.content of a choice: text, or None.
Contents == {None, "c1", "c2"}

\* A chat-completion response is its list of choices, each with a content.
RECURSIVE SeqsUpTo(_, _)
SeqsUpTo(S, n) ==
    IF n = 0 THEN {<<>>}
    ELSE LET shorter == SeqsUpTo(S, n - 1)
         IN  shorter \cup {Append(s, x) : s \in {t \in shorter : Len(t) = n - 1}, x \in S}

Responses == SeqsUpTo(Contents, MaxChoices)

\* Exceptions client.chat.completions.create can raise.
CreateErrors == {"APIConnectionError", "AuthenticationError", "RateLimitError"}

\* str(x) as print applies it to its argument.
Str(x) == IF x = None THEN "None" ELSE x

\* f"file://{pathlib.Path.cwd() / 'mlruns'}"
TrackingUri(dir) == <<"file://", dir, "mlruns">>

\* The keyword arguments of the request on lines 20-28.
Request ==
    [model    |-> "llama-3.1-8b-instant",
     messages |-> <<[role    |-> "user",
                     content |-> "Explain the importance of low latency LLMs."]>>]

VARIABLES
    pc,            \* the statement the script executes next
    cwd,           \* the process's working directory
    dotenvFile,    \* GROQ_API_KEY as the .env file gives it (None: absent)
    environ,       \* GROQ_API_KEY in os.environ (None: unset)
    tracking_uri,  \* mlflow's tracking URI (<<>>: not set by the script)
    experiment,    \* mlflow's active experiment name (None: not set)
    autologged,    \* whether mlflow.groq.autolog() has been enabled
    client,        \* the name `client` (<<>>: unbound)
    requests,      \* the chat-completion requests issued so far
    message,       \* the name `message` (<<>>: unbound)
    stdout,        \* the lines printed so far
    raised         \* the unhandled exception that ended the run (None: none)

vars == <<pc, cwd, dotenvFile, environ, tracking_uri, experiment, autologged,
          client, requests, message, stdout, raised>>

Init ==
    /\ pc = "load_dotenv"
    /\ cwd \in CwdPaths
    /\ dotenvFile \in ApiKeys
    /\ environ \in ApiKeys
    /\ tracking_uri = <<>>
    /\ experiment = None
    /\ autologged = FALSE
    /\ client = <<>>
    /\ requests = <<>>
    /\ message = <<>>
    /\ stdout = <<>>
    /\ raised = None

\* An exception nothing catches: the interpreter stops at this statement.
Unhandled(kind) ==
    /\ raised' = kind
    /\ pc' = "crashed"

\* Line 7: dotenv.load_dotenv() fills os.environ from .env without
\* overriding a variable that is already set.
LoadDotenv ==
    /\ pc = "load_dotenv"
    /\ \/ /\ environ' = IF environ = None THEN dotenvFile ELSE environ
          /\ pc' = "set_tracking_uri"
          /\ UNCHANGED raised
       \/ /\ Unhandled("OSError")
          /\ UNCHANGED environ
    /\ UNCHANGED <<cwd, dotenvFile, tracking_uri, experiment, autologged,
                   client, requests, message, stdout>>

\* Line 11: mlflow.set_tracking_uri(f"file://{cwd / 'mlruns'}").
SetTrackingUri ==
    /\ pc = "set_tracking_uri"
    /\ \/ /\ tracking_uri' = TrackingUri(cwd)
          /\ pc' = "set_experiment"
          /\ UNCHANGED raised
       \/ /\ Unhandled("OSError")
          /\ UNCHANGED tracking_uri
    /\ UNCHANGED <<cwd, dotenvFile, environ, experiment, autologged, client,
                   requests, message, stdout>>

\* Line 12: mlflow.set_experiment("Groq").
SetExperiment ==
    /\ pc = "set_experiment"
    /\ \/ /\ experiment' = "Groq"
          /\ pc' = "autolog"
          /\ UNCHANGED raised
       \/ /\ Unhandled("MlflowException")
          /\ UNCHANGED experiment
    /\ UNCHANGED <<cwd, dotenvFile, environ, tracking_uri, autologged, client,
                   requests, message, stdout>>

\* Line 15: mlflow.groq.autolog().
Autolog ==
    /\ pc = "autolog"
    /\ \/ /\ autologged' = TRUE
          /\ pc' = "client"
          /\ UNCHANGED raised
       \/ /\ Unhandled("MlflowException")
          /\ UNCHANGED autologged
    /\ UNCHANGED <<cwd, dotenvFile, environ, tracking_uri, experiment, client,
                   requests, message, stdout>>

\* Line 17: client = groq.Groq(api_key=os.getenv("GROQ_API_KEY")).
NewClient ==
    /\ pc = "client"
    /\ \/ /\ client' = <<[api_key |-> environ]>>
          /\ pc' = "create"
          /\ UNCHANGED raised
       \/ /\ Unhandled("GroqError")
          /\ UNCHANGED client
    /\ UNCHANGED <<cwd, dotenvFile, environ, tracking_uri, experiment,
                   autologged, requests, message, stdout>>

\* Lines 20-28 with a retry loop around the request, which the script does
\* not have: a failed request is issued again.
CreateCompletionRetrying ==
    /\ pc = "create"
    /\ Len(requests) < 3
    /\ requests' = Append(requests, [args |-> Request, traced |-> autologged])
    /\ \/ \E response \in Responses :
            /\ message' = <<response>>
            /\ pc' = "print"
            /\ UNCHANGED raised
       \/ /\ UNCHANGED <<message, pc, raised>>
    /\ UNCHANGED <<cwd, dotenvFile, environ, tracking_uri, experiment,
                   autologged, client, stdout>>

\* Lines 20-28: message = client.chat.completions.create(model=..., messages=...).
\* The request is issued once; it returns a response or raises.
CreateCompletion ==
    /\ pc = "create"
    /\ requests' = Append(requests, [args |-> Request, traced |-> autologged])
    /\ \/ \E response \in Responses :
            /\ message' = <<response>>
            /\ pc' = "print"
            /\ UNCHANGED raised
       \/ \E err \in CreateErrors :
            /\ Unhandled(err)
            /\ UNCHANGED message
    /\ UNCHANGED <<cwd, dotenvFile, environ, tracking_uri, experiment,
                   autologged, client, stdout>>

\* Line 30: print(message.choices[0].message.content).
PrintContent ==
    /\ pc = "print"
    /\ LET choices == message[1]
       IN  \/ /\ Len(choices) > 0
              /\ stdout' = Append(stdout, Str(choices[1]))
              /\ pc' = "done"
              /\ UNCHANGED raised
           \/ /\ Len(choices) = 0
              /\ Unhandled("IndexError")
              /\ UNCHANGED stdout
    /\ UNCHANGED <<cwd, dotenvFile, environ, tracking_uri, experiment,
                   autologged, client, requests, message>>

Next ==
    \/ LoadDotenv
    \/ SetTrackingUri
    \/ SetExperiment
    \/ Autolog
    \/ NewClient
    \/ CreateCompletion
    \/ PrintContent

Spec == Init /\ [][Next]_vars

TypeOK ==
    /\ pc \in {"load_dotenv", "set_tracking_uri", "set_experiment", "autolog",
               "client", "create", "print", "done", "crashed"}
    /\ cwd \in CwdPaths
    /\ dotenvFile \in ApiKeys
    /\ environ \in ApiKeys
    /\ tracking_uri \in {<<>>} \cup {TrackingUri(d) : d \in CwdPaths}
    /\ experiment \in {None, "Groq"}
    /\ autologged \in BOOLEAN
    /\ Len(client) <= 1
    /\ Len(message) <= 1
    /\ message \in {<<>>} \cup {<<r>> : r \in Responses}
    /\ raised \in {None, "OSError", "MlflowException", "GroqError", "IndexError"}
                  \cup CreateErrors

\* C7: the script's steps occur in one fixed order.  Auto tracing is only
\* ever enabled after the tracking URI and the experiment are configured; a
\* request is only ever issued with auto tracing enabled; at most one
\* request is issued in a run; anything printed is the content of the first
\* choice of that request's response, printed once; a run that reaches its
\* end has issued exactly one request and printed once; and when the request
\* raises, the run has ended with that one request and nothing printed.
ScriptStepsInFixedOrder ==
    /\ autologged => (tracking_uri = TrackingUri(cwd) /\ experiment = "Groq")
    /\ \A i \in 1..Len(requests) : requests[i].traced /\ autologged
    /\ Len(requests) <= 1
    /\ (Len(requests) = 1) <=> (pc \in {"print", "done"} \/ raised \in CreateErrors
                                 \/ raised = "IndexError")
    /\ message # <<>> => Len(requests) = 1
    /\ stdout # <<>> =>
          /\ message # <<>>
          /\ Len(message[1]) > 0
          /\ stdout = <<Str(message[1][1])>>
    /\ pc = "done" => (Len(requests) = 1 /\ Len(stdout) = 1 /\ raised = None)
    /\ raised \in CreateErrors =>
          (pc = "crashed" /\ Len(requests) = 1 /\ message = <<>> /\ stdout = <<>>)
    /\ raised # None <=> pc = "crashed"

\* A run that went through every step: one request issued, its content printed.
RunPrintedResponse ==
    /\ pc = "done"
    /\ autologged
    /\ Len(requests) = 1
    /\ Len(stdout) = 1

\* A run whose request failed.
RunRequestFailed ==
    /\ pc = "crashed"
    /\ raised \in CreateErrors
====
